---- MODULE Spec2Model ----
(***************************************************************************)
(* EegMonitorCanvas: a socket listener feeding four per-channel ring       *)
(* buffers through a lodash throttle, and a requestAnimationFrame draw     *)
(* loop that plots the samples of the last WINDOW_DURATION milliseconds.   *)
(* The throttle is lodash.throttle with its default leading and trailing   *)
(* edges (debounce with maxWait = wait); the event loop runs one handler   *)
(* at a time, so each handler is one atomic action.                        *)
(***************************************************************************)
EXTENDS Integers, Sequences, FiniteSets, TLC

(* ------------------------------ constants ------------------------------ *)

SAMPLE_RATE == 250

WINDOW_DURATION == 2000

GRAPH_WIDTH == 400

\* Array(4): the number of ring buffers (and of canvases).
NumChannels == 4

\* The wait of throttle(..., 32).
THROTTLE_WAIT == 32

(* -------------------------------- bounds -------------------------------- *)

\* Capacity the ring buffers are constructed with (WINDOW_SIZE is 500 in the
\* component; the class takes any capacity).
Capacity == 3

\* Number of socket messages delivered in one run.
MaxMsgs == 3

\* Number of clock advances in one run.
MaxTicks == 3

\* The same two bounds for the runs with fair frame scheduling.
FrameMsgs == 1

FrameTicks == 2

(* ------------------------------ data model ------------------------------ *)

Channels == 0 .. (NumChannels - 1)

None == [none |-> TRUE]

\* The object every slot is filled with by the constructor.
Placeholder == [timestamp |-> 0, value |-> 0]

\* A slot of an array that was never assigned (a hole left by a write past
\* the end of a JavaScript array).
Hole == [timestamp |-> -1, value |-> 0]

\* Amounts by which Date.now() advances between two events.
TickSteps == {16, WINDOW_DURATION}

\* The channel arrays of the batches the server sends, and two payloads that
\* make the handler throw before any push.
Payloads ==
  { [kind |-> "batch", channels |-> << <<1, -1>>, <<1>>, <<>>, <<-1, 1, 1>> >>],
    [kind |-> "batch", channels |-> << <<1>>, <<-1>>, <<1>>, <<-1>>, <<1>> >>],
    [kind |-> "nochannels", channels |-> <<>>],
    [kind |-> "badjson", channels |-> <<>>] }

\* Which canvases yield a 2D context in one frame.
CtxChoices == {Channels, {0, 3}}

(* ------------------------------ RingBuffer ------------------------------ *)

NewRingBuffer(capacity) ==
  [buffer |-> [i \in 1 .. capacity |-> Placeholder],
   pointer |-> 0,
   capacity |-> capacity]

\* arr[idx] = v on a JavaScript array (idx is 0-based; a write past the end
\* extends the array).
SetAt(arr, idx, v) ==
  [i \in 1 .. (IF idx + 1 > Len(arr) THEN idx + 1 ELSE Len(arr)) |->
     IF i = idx + 1 THEN v ELSE IF i <= Len(arr) THEN arr[i] ELSE Hole]

PushNoWrap(rbuf, sample) ==
  [rbuf EXCEPT !.buffer = SetAt(rbuf.buffer, rbuf.pointer, sample),
               !.pointer = rbuf.pointer + 1]

PushNoAdvance(rbuf, sample) ==
  [rbuf EXCEPT !.buffer = SetAt(rbuf.buffer, rbuf.pointer, sample)]

Push(rbuf, sample) ==
  [rbuf EXCEPT !.buffer = SetAt(rbuf.buffer, rbuf.pointer, sample),
               !.pointer = (rbuf.pointer + 1) % rbuf.capacity]

GetArrayUnrotated(rbuf) == rbuf.buffer

GetArray(rbuf) ==
  SubSeq(rbuf.buffer, rbuf.pointer + 1, Len(rbuf.buffer))
    \o SubSeq(rbuf.buffer, 1, rbuf.pointer)

(* ------------------------------- the refs ------------------------------- *)

\* dataRef.current: channel index -> the RingBuffer object it refers to.
DataRefAliased == [k \in Channels |-> 0]

DataRef == [k \in Channels |-> k]

(* ----------------------------- handleMessage ---------------------------- *)

sampleInterval == 1000 \div SAMPLE_RATE

SampleAtNext(data, i, value) ==
  [timestamp |-> data.timestamp + ((i + 1) * sampleInterval), value |-> value]

\* The sample built for the value at (0-based) index i of a channel array.
SampleAt(data, i, value) ==
  [timestamp |-> data.timestamp + (i * sampleInterval), value |-> value]

\* channel.forEach((value, i) => dataRef.current[channelIndex].push(...)),
\* from index i on.  st = [rb, log, threw].
RECURSIVE ChannelForEach(_, _, _, _)
ChannelForEach(st, data, channelIndex, i) ==
  IF i >= Len(data.channels[channelIndex + 1]) THEN st
  ELSE IF channelIndex \notin DOMAIN DataRef
    THEN [st EXCEPT !.threw = TRUE]
    ELSE LET sample == SampleAt(data, i, data.channels[channelIndex + 1][i + 1])
             obj == DataRef[channelIndex]
         IN ChannelForEach(
              [st EXCEPT !.rb[obj] = Push(@, sample),
                         !.log[channelIndex] = Append(@, sample)],
              data, channelIndex, i + 1)

\* data.channels.forEach((channel, channelIndex) => ...), from channelIndex on.
RECURSIVE ChannelsForEach(_, _, _)
ChannelsForEach(st, data, channelIndex) ==
  IF st.threw \/ channelIndex >= Len(data.channels) THEN st
  ELSE ChannelsForEach(ChannelForEach(st, data, channelIndex, 0), data, channelIndex + 1)

EmptyLog == [k \in Channels |-> <<>>]

HandleMessageValidating(heap, lastTs, data, now) ==
  IF data.kind = "batch" /\ Len(data.channels) <= NumChannels
  THEN LET st == ChannelsForEach([rb |-> heap, log |-> EmptyLog, threw |-> FALSE], data, 0)
       IN [rb |-> st.rb, log |-> st.log, lastTimestamp |-> now, outcome |-> "ok"]
  ELSE [rb |-> heap, log |-> EmptyLog, lastTimestamp |-> lastTs, outcome |-> "caught"]

\* One invocation of the throttled function body: the try block and its catch.
HandleMessage(heap, lastTs, data, now) ==
  IF data.kind = "badjson"
  THEN [rb |-> heap, log |-> EmptyLog, lastTimestamp |-> lastTs, outcome |-> "caught"]
  ELSE IF data.kind = "nochannels"
  THEN [rb |-> heap, log |-> EmptyLog, lastTimestamp |-> now, outcome |-> "caught"]
  ELSE LET st == ChannelsForEach([rb |-> heap, log |-> EmptyLog, threw |-> FALSE], data, 0)
       IN [rb |-> st.rb, log |-> st.log, lastTimestamp |-> now,
           outcome |-> IF st.threw THEN "caught" ELSE "ok"]

(* --------------------------------- draw --------------------------------- *)

InWindowNoUpper(s, startTime, now) == s.timestamp >= startTime

InWindow(s, startTime, now) == s.timestamp >= startTime /\ s.timestamp <= now

\* Insert s into the sorted sequence behind every element that does not
\* compare greater (the sort is stable).
RECURSIVE InsertSorted(_, _)
InsertSorted(sorted, s) ==
  IF sorted = <<>> THEN <<s>>
  ELSE IF sorted[Len(sorted)].timestamp - s.timestamp <= 0
    THEN Append(sorted, s)
    ELSE Append(InsertSorted(SubSeq(sorted, 1, Len(sorted) - 1), s), sorted[Len(sorted)])

RECURSIVE SortFrom(_, _, _)
SortFrom(sorted, arr, i) ==
  IF i > Len(arr) THEN sorted ELSE SortFrom(InsertSorted(sorted, arr[i]), arr, i + 1)

Unsorted(arr) == arr

\* arr.sort((a, b) => a.timestamp - b.timestamp)
SortByTimestamp(arr) == SortFrom(<<>>, arr, 1)

\* buffer.getArray().filter(...).sort(...)
Samples(rbuf, now) ==
  LET startTime == now - WINDOW_DURATION
      all == GetArray(rbuf)
  IN SortByTimestamp(SelectSeq(all, LAMBDA s: InWindow(s, startTime, now)))

\* x of a sample, times WINDOW_DURATION (x itself need not be an integer).
XTimesWindow(sample, now) ==
  (GRAPH_WIDTH * WINDOW_DURATION) - ((now - sample.timestamp) * GRAPH_WIDTH)

\* What one channel's callback of the frame does: nothing without a context,
\* the background alone with fewer than two samples, else the path.
DrawChannel(rbuf, hasCtx, now) ==
  LET samples == Samples(rbuf, now)
  IN IF hasCtx /\ Len(samples) >= 2
     THEN [stroked |-> TRUE,
           points |-> [i \in 1 .. Len(samples) |->
                         [x |-> XTimesWindow(samples[i], now), sample |-> samples[i]]]]
     ELSE [stroked |-> FALSE, points |-> <<>>]

RescheduleIfAllDrawn(ctxs) == IF ctxs = Channels THEN 1 ELSE 0

\* Number of requestAnimationFrame(draw) calls one execution of draw makes.
DrawReschedules(ctxs) == 1

(* --------------------------------- state -------------------------------- *)

VARIABLES
  clock,           \* Date.now()
  ticks,           \* clock advances so far
  rb,              \* the RingBuffer objects, by object
  lastTimestamp,   \* lastTimestampRef.current
  timerId,         \* throttle: <<deadline>> of the pending timer, or <<>>
  lastArgs,        \* throttle: the message of the pending trailing call, or None
  lastCallTime,    \* throttle: <<time>> of the last call, or <<>>
  lastInvokeTime,  \* throttle: time of the last invocation
  rafPending,      \* animation-frame callbacks requested and not yet run
  frame,           \* history: what draw painted, None once an event followed it
  frameParity,     \* history: number of executions of draw, modulo 2
  nReceived,       \* history: number of messages delivered on the socket
  handled,         \* history: ids of the messages handleMessage was invoked with
  lastData,        \* history: the message of the last invocation, or None
  outcome,         \* history: how the last invocation ended
  pushLog,         \* history: the pushes of the last invocation, by channel index
  fifo             \* history: per channel, a reference FIFO of the last Capacity pushes

vars == <<clock, ticks, rb, lastTimestamp, timerId, lastArgs, lastCallTime,
          lastInvokeTime, rafPending, frame, frameParity, nReceived, handled, lastData,
          outcome, pushLog, fifo>>

throttleVars == <<timerId, lastArgs, lastCallTime, lastInvokeTime>>

handlerVars == <<rb, lastTimestamp, handled, lastData, outcome, pushLog, fifo>>

BufferOf(k) == rb[DataRef[k]]

\* Append the pushes to a FIFO and drop the head while it is longer than Capacity.
FifoAppend(q, pushes) ==
  LET all == q \o pushes
  IN SubSeq(all, Len(all) - Capacity + 1, Len(all))

Init ==
  /\ clock = 0
  /\ ticks = 0
  /\ rb = [o \in Channels |-> NewRingBuffer(Capacity)]
  /\ lastTimestamp = 0
  /\ timerId = <<>>
  /\ lastArgs = None
  /\ lastCallTime = <<>>
  /\ lastInvokeTime = 0
  /\ rafPending = 1
  /\ frame = None
  /\ frameParity = 0
  /\ nReceived = 0
  /\ handled = {}
  /\ lastData = None
  /\ outcome = "none"
  /\ pushLog = EmptyLog
  /\ fifo = [k \in Channels |-> [i \in 1 .. Capacity |-> Placeholder]]

(* -------------------------------- actions ------------------------------- *)

\* Time passes (at most maxTicks times).
TickUpTo(maxTicks) ==
  /\ ticks < maxTicks
  /\ \E d \in TickSteps : clock' = clock + d
  /\ ticks' = ticks + 1
  /\ frame' = None
  /\ UNCHANGED <<rb, lastTimestamp, timerId, lastArgs, lastCallTime,
                 lastInvokeTime, rafPending, frameParity, nReceived, handled,
                 lastData, outcome, pushLog, fifo>>

\* invokeFunc of the throttle: the handler runs on msg.
InvokeFunc(msg) ==
  LET r == HandleMessage(rb, lastTimestamp, msg, clock)
  IN /\ rb' = r.rb
     /\ lastTimestamp' = r.lastTimestamp
     /\ outcome' = r.outcome
     /\ pushLog' = r.log
     /\ handled' = handled \cup {msg.id}
     /\ lastData' = msg
     /\ fifo' = [k \in Channels |-> FifoAppend(fifo[k], r.log[k])]
     /\ lastArgs' = None
     /\ lastInvokeTime' = clock

\* shouldInvoke of the throttle (maxWait = wait).
ShouldInvoke ==
  \/ lastCallTime = <<>>
  \/ clock - lastCallTime[1] >= THROTTLE_WAIT
  \/ clock - lastCallTime[1] < 0
  \/ clock - lastInvokeTime >= THROTTLE_WAIT

\* ws.onmessage: the throttled function is called with a message (at most
\* maxMsgs times).
Receive(maxMsgs) ==
  /\ nReceived < maxMsgs
  /\ \E p \in Payloads :
       LET msg == [id |-> nReceived + 1, kind |-> p.kind,
                   channels |-> p.channels, timestamp |-> clock]
       IN /\ nReceived' = nReceived + 1
          /\ lastCallTime' = <<clock>>
          /\ IF ShouldInvoke
             THEN \* leading edge, or an overdue timer restarted
                  /\ timerId' = <<clock + THROTTLE_WAIT>>
                  /\ InvokeFunc(msg)
             ELSE /\ lastArgs' = msg
                  /\ timerId' = IF timerId = <<>> THEN <<clock + THROTTLE_WAIT>> ELSE timerId
                  /\ UNCHANGED <<handlerVars, lastInvokeTime>>
  /\ frame' = None
  /\ UNCHANGED <<clock, ticks, rafPending, frameParity>>

\* timerExpired of the throttle: the trailing edge.
TimerExpired ==
  /\ timerId # <<>>
  /\ clock >= timerId[1]
  /\ timerId' = <<>>
  /\ IF lastArgs # None
     THEN InvokeFunc(lastArgs)
     ELSE UNCHANGED <<handlerVars, lastArgs, lastInvokeTime>>
  /\ frame' = None
  /\ UNCHANGED <<clock, ticks, lastCallTime, rafPending, frameParity, nReceived>>

\* One animation frame: draw runs and asks for the next frame.
Draw ==
  /\ rafPending > 0
  /\ \E ctxs \in CtxChoices :
       /\ frame' = [now |-> clock,
                    ctxs |-> ctxs,
                    channel |-> [k \in Channels |-> DrawChannel(BufferOf(k), k \in ctxs, clock)]]
       /\ rafPending' = (rafPending - 1) + DrawReschedules(ctxs)
  /\ frameParity' = 1 - frameParity
  /\ UNCHANGED <<clock, ticks, throttleVars, handlerVars, nReceived>>

Tick == TickUpTo(MaxTicks)

OnMessage == Receive(MaxMsgs)

Next == Tick \/ OnMessage \/ TimerExpired \/ Draw

Spec == Init /\ [][Next]_vars

FrameTick == TickUpTo(FrameTicks)

FrameMessage == Receive(FrameMsgs)

FrameNext == FrameTick \/ FrameMessage \/ TimerExpired \/ Draw

\* The browser keeps delivering animation frames.
FairSpec == Init /\ [][FrameNext]_vars /\ WF_vars(Draw)

(* ------------------------------ properties ------------------------------ *)

Range(seq) == {seq[i] : i \in DOMAIN seq}

Count(seq, x) == Cardinality({i \in DOMAIN seq : seq[i] = x})

SameBag(a, b) == \A x \in Range(a) \cup Range(b) : Count(a, x) = Count(b, x)

RECURSIVE PushSeq(_, _)
PushSeq(rbuf, pushes) ==
  IF pushes = <<>> THEN rbuf ELSE PushSeq(Push(rbuf, Head(pushes)), Tail(pushes))

\* The step is an invocation of handleMessage.
Invocation == handled' # handled

\* C1: every ring buffer always holds exactly Capacity slots, getArray()
\* returns exactly Capacity elements, and the write pointer is in
\* 0 .. Capacity-1, after any number of pushes.
C1_ConstantLength ==
  \A o \in DOMAIN rb :
    /\ Len(rb[o].buffer) = Capacity
    /\ Len(GetArray(rb[o])) = Capacity
    /\ rb[o].pointer \in 0 .. (Capacity - 1)

\* More than Capacity pushes went into buffer 0: no placeholder is left and
\* the pointer has passed slot 0 again.
C1_Witness ==
  /\ Placeholder \notin Range(BufferOf(0).buffer)
  /\ BufferOf(0).pointer = 1
  /\ Len(BufferOf(0).buffer) = Capacity

\* C2: a push overwrites the oldest slot and nothing else: as a collection,
\* a buffer holds exactly the most recent min(n, Capacity) pushed samples and
\* Capacity - min(n, Capacity) placeholders.
C2_OverwritesOldest ==
  \A k \in Channels : SameBag(BufferOf(k).buffer, fifo[k])

\* Buffer 3 was filled and then pushed into again: older pushes were discarded.
C2_Witness ==
  /\ Cardinality(handled) >= 2
  /\ Placeholder \notin Range(BufferOf(3).buffer)
  /\ pushLog[3] # <<>>
  /\ SameBag(BufferOf(3).buffer, fifo[3])

\* C3: no received message is dropped: every message delivered on the socket
\* has been handled or is the pending call the throttle will still make.
C3_NoMessageDropped ==
  \A id \in 1 .. nReceived :
    \/ id \in handled
    \/ (lastArgs # None /\ lastArgs.id = id)

\* C4: every execution of draw leaves exactly one animation frame requested,
\* and under fair frame scheduling draw runs again and again forever, so a
\* draw follows every push.
C4_DrawsForever ==
  /\ [](rafPending = 1)
  /\ []<><<Draw>>_vars

\* A frame drawn after a batch was pushed, in which a canvas had no context
\* and a drawn channel had fewer than two samples in the window, with the
\* next frame requested.
C4_Witness ==
  /\ frame # None
  /\ pushLog[0] # <<>>
  /\ frame.ctxs # Channels
  /\ \E k \in frame.ctxs : ~frame.channel[k].stroked
  /\ frameParity = 1
  /\ rafPending = 1

\* C5: the four buffers are distinct objects, and an invocation changes the
\* buffer of channel k by exactly the pushes made for channels[k]; every other
\* step leaves all buffers alone.
C5_ChannelOwnsBuffer ==
  [][/\ \A j, k \in Channels : j # k => DataRef[j] # DataRef[k]
     /\ \A k \in Channels :
          BufferOf(k)' = PushSeq(BufferOf(k), IF Invocation THEN pushLog'[k] ELSE <<>>)]_vars

\* A batch pushed into buffers 0, 1 and 3 and left buffer 2 as constructed.
C5_Witness ==
  /\ outcome = "ok"
  /\ pushLog[0] # <<>>
  /\ pushLog[2] = <<>>
  /\ BufferOf(2) = NewRingBuffer(Capacity)
  /\ BufferOf(0) # NewRingBuffer(Capacity)
  /\ BufferOf(3) # BufferOf(0)

\* The message makes the handler raise an error: it does not parse, has no
\* channels array, or has a non-empty channel array beyond the buffers.
Erroneous(data) ==
  \/ data.kind # "batch"
  \/ \E k \in DOMAIN data.channels : k - 1 \notin Channels /\ data.channels[k] # <<>>

\* The samples the batch carries for channel index k.
ExpectedPushes(data, k) ==
  IF data.kind = "batch" /\ k < Len(data.channels)
  THEN [i \in 1 .. Len(data.channels[k + 1]) |->
          [timestamp |-> data.timestamp + (4 * (i - 1)),
           value |-> data.channels[k + 1][i]]]
  ELSE <<>>

\* C6 as stated: when handling a message raises an error, the error is
\* caught and every ring buffer is as it was before the message.
C6_ErrorLeavesBuffers ==
  [][(Invocation /\ Erroneous(lastData')) => (outcome' = "caught" /\ rb' = rb)]_vars

\* C6 amended: the error is caught; the buffers are unchanged when the
\* message does not parse or has no channels array, and for a batch with a
\* non-empty surplus channel array the values of the first four channel
\* arrays have been pushed and stay in buffers 0..3.
C6_ErrorKeepsEarlierPushes ==
  [][(Invocation /\ Erroneous(lastData')) =>
       /\ outcome' = "caught"
       /\ lastData'.kind # "batch" => rb' = rb
       /\ lastData'.kind = "batch" =>
            \A k \in Channels :
              BufferOf(k)' = PushSeq(BufferOf(k), ExpectedPushes(lastData', k))]_vars

\* A five-channel batch was handled: the error was caught after the pushes
\* for the four buffers.
C6_Witness ==
  /\ outcome = "caught"
  /\ lastData # None
  /\ lastData.kind = "batch"
  /\ Len(lastData.channels) > NumChannels
  /\ \A k \in Channels : pushLog[k] # <<>>

\* C7: the value at index i of channels[k] of a handled batch with base
\* timestamp T is pushed to buffer k as (T + 4*i, value), in increasing index
\* order, so the timestamps one batch pushes into one buffer strictly increase.
C7_SampleTimestamps ==
  (lastData # None /\ lastData.kind = "batch") =>
    \A k \in Channels :
      /\ pushLog[k] = ExpectedPushes(lastData, k)
      /\ \A i, j \in DOMAIN pushLog[k] :
           i < j => pushLog[k][i].timestamp < pushLog[k][j].timestamp

\* A batch received at a later time pushed three values into buffer 3.
C7_Witness ==
  /\ lastData # None
  /\ lastData.kind = "batch"
  /\ lastData.timestamp > 0
  /\ Len(pushLog[3]) = 3
  /\ pushLog[3][3].timestamp = lastData.timestamp + 8
  /\ pushLog[1] # <<>>

\* C8: getArray() returns the slots oldest first: the placeholders not yet
\* overwritten followed by the last min(n, Capacity) pushes in push order,
\* that is, the content of the reference FIFO.
C8_GetArrayOldestFirst ==
  \A k \in Channels : GetArray(BufferOf(k)) = fifo[k]

\* Buffer 0 has wrapped and its pointer is inside the array, so getArray()
\* differs from the slots in storage order.
C8_Witness ==
  /\ Placeholder \notin Range(BufferOf(0).buffer)
  /\ BufferOf(0).pointer # 0
  /\ GetArray(BufferOf(0)) # BufferOf(0).buffer
  /\ Cardinality(handled) >= 2

\* The samples of buffer k whose timestamp lies in the window ending at now.
Qualifying(k, now) ==
  SelectSeq(BufferOf(k).buffer,
            LAMBDA s : now - 2000 <= s.timestamp /\ s.timestamp <= now)

\* C9: a frame drawn at time now plots, for each channel with a context and
\* at least two samples in [now - WINDOW_DURATION, now], exactly those samples
\* in nondecreasing timestamp order, and plots nothing otherwise; placeholders
\* are not plotted once now > WINDOW_DURATION; draw changes no ring buffer.
C9_PlotsWindow ==
  [][frameParity' # frameParity =>
       /\ rb' = rb
       /\ frame'.now = clock
       /\ \A k \in Channels :
            LET q == Qualifying(k, clock)
                ch == frame'.channel[k]
            IN /\ ch.stroked <=> (k \in frame'.ctxs /\ Len(q) >= 2)
               /\ ~ch.stroked => ch.points = <<>>
               /\ ch.stroked =>
                    /\ SameBag([i \in DOMAIN ch.points |-> ch.points[i].sample], q)
                    /\ \A i, j \in DOMAIN ch.points :
                         i < j => ch.points[i].sample.timestamp <= ch.points[j].sample.timestamp
               /\ clock > WINDOW_DURATION =>
                    \A i \in DOMAIN ch.points : ch.points[i].sample.timestamp # 0]_vars

\* A frame after WINDOW_DURATION that strokes a channel whose buffer holds
\* in-window samples out of timestamp order, while a drawn channel still
\* holds placeholders.
C9_Witness ==
  /\ frame # None
  /\ frame.now > WINDOW_DURATION
  /\ \E k \in frame.ctxs : Placeholder \in Range(BufferOf(k).buffer)
  /\ \E k \in Channels :
       LET arr == GetArray(BufferOf(k))
       IN /\ frame.channel[k].stroked
          /\ \E i, j \in DOMAIN arr :
               /\ i < j
               /\ arr[i].timestamp > arr[j].timestamp
               /\ arr[i].timestamp <= frame.now
               /\ arr[j].timestamp >= frame.now - WINDOW_DURATION

\* C10: every plotted point lies inside the canvas, 0 <= x <= GRAPH_WIDTH,
\* with x = GRAPH_WIDTH at t = now and x = 0 at t = now - WINDOW_DURATION, and
\* x never decreases along the plotted sequence.  (Points carry
\* x * WINDOW_DURATION, so GRAPH_WIDTH reads 400 * 2000.)
C10_XInsideCanvas ==
  frame # None =>
    \A k \in Channels :
      LET pts == frame.channel[k].points
      IN /\ \A i \in DOMAIN pts :
              /\ pts[i].x = (400 * 2000) - ((frame.now - pts[i].sample.timestamp) * 400)
              /\ 0 <= pts[i].x
              /\ pts[i].x <= 400 * 2000
              /\ pts[i].sample.timestamp = frame.now => pts[i].x = 400 * 2000
              /\ pts[i].sample.timestamp = frame.now - 2000 => pts[i].x = 0
         /\ \A i, j \in DOMAIN pts : i < j => pts[i].x <= pts[j].x

\* A stroked line that runs from the left edge to the right edge.
C10_Witness ==
  /\ frame # None
  /\ \E k \in Channels :
       LET pts == frame.channel[k].points
       IN /\ frame.channel[k].stroked
          /\ pts[1].x = 0
          /\ pts[Len(pts)].x = GRAPH_WIDTH * WINDOW_DURATION

====
